---- MODULE Spec2Model ----
(***************************************************************************)
(* Mimir: the commit-graph and branch-pointer engine.                      *)
(*                                                                         *)
(* The committed content of the database is held in the variables          *)
(* projects, tasks, branches, commits and parents.  A service call         *)
(* computes a set of pending writes (a delta) from the rows it reads; the  *)
(* session's commit() makes the delta visible, all of it or none of it.    *)
(* Spec runs every service call together with its commit as one step (one  *)
(* caller at a time); SpecConc runs create_task and create_commit in two   *)
(* sessions whose reads and commits interleave; SpecLinear only appends    *)
(* ordinary commits to main branches.  SpecProject adds rename and delete  *)
(* of projects and the create-task command over two projects; SpecTree is  *)
(* the project store alone; SpecCross has two tasks whose branches may be  *)
(* forked from any commit; SpecHierarchy runs get_project_hierarchy, one    *)
(* activation at a time, over any projects table the schema admits;        *)
(* SpecSelection runs the commands that use the current selection;         *)
(* SpecDelete deletes tasks and projects whose commits may be referenced.  *)
(***************************************************************************)
EXTENDS Integers, Sequences, FiniteSets, TLC

\* None in Python, NULL in SQL.  Generated identifiers are positive.
NULL == 0

\* ---- bounds of the model ----
MaxCommits == 3     \* commits created in Spec and SpecConc
MaxChain == 5       \* commits created in SpecLinear
MaxTaskIds == 3     \* task identifiers drawn in SpecConc
MaxLimit == 4       \* largest limit passed to get_history
MaxProjectIds == 3  \* project identifiers handed out in SpecProject
MaxOwnedCommits == 2    \* commits created in SpecProject
MaxCrossCommits == 2    \* commits created in SpecCross
MaxStoredProjects == 3  \* rows of table projects in SpecHierarchy
RecursionLimit == 5     \* nested calls the interpreter allows
MaxSelectionCommits == 2    \* commits created in SpecSelection
MaxDeleteCommits == 2       \* commits created in SpecDelete
MaxDeleteTasks == 2         \* tasks created in SpecDelete
MaxDeleteProjects == 1      \* projects created in SpecDelete

\* ---- inputs ----
ProjectNames == {"P"}
TwoProjectNames == {"P", "Q"}
TreeProjectNames == {"P", "Q", "R"}
StoredNames == <<"P", "Q", "R", "S">>    \* in the order ORDER BY name gives
TaskNames == {"T1"}
ChainTaskNames == {"T1", "T2"}
Limits == 1..MaxLimit
BranchNames == {"main", "feature"}
Messages == {"msg"}
Contexts == {"hello"}
Authors == {"alice"}
OptionalMessages == Messages \cup {""}     \* "" and None are both falsy
OptionalContexts == Contexts \cup {""}
OptionalTasks == ChainTaskNames \cup {""}
OptionalBranches == BranchNames \cup {""}
Sessions == {1, 2}

VARIABLES
    projects,       \* rows of table projects: [id, name, parent_id]
    tasks,          \* rows of table tasks: [id, project_id, name, external_id]
    branches,       \* rows of table branches: [task_id, name, head_commit_id]
    commits,        \* rows of table context_commits
    parents,        \* rows of table commit_parents: <<child_id, parent_id>>
    nextProjectId,  \* the next identifiers uuid4 hands out
    nextTaskId,
    nextCommitId,
    tx,             \* per session: the open transaction of a running call
    hier,           \* the running get_project_hierarchy call and its frames
    state,          \* the content of ~/.mimir/state.json
    last            \* the outcome of the call that finished last

vars == <<projects, tasks, branches, commits, parents,
          nextProjectId, nextTaskId, nextCommitId, tx, hier, state,
          last>>

dbvars == <<projects, tasks, branches, commits, parents>>

\* ---- rows ----
Project(id, name, parent_id) ==
    [id |-> id, name |-> name, parent_id |-> parent_id]

Task(id, project_id, name, external_id) ==
    [id |-> id, project_id |-> project_id, name |-> name,
     external_id |-> external_id]

\* A branch row is identified by (task_id, name), which uq_task_branch_name
\* makes a key; its surrogate id and created_at are not modelled.
Branch(task_id, name, head_commit_id) ==
    [task_id |-> task_id, name |-> name, head_commit_id |-> head_commit_id]

ContextCommit(id, task_id, message, full_context, author, cognitive_load, uncertainty, created_at) ==
    [id |-> id, task_id |-> task_id, message |-> message,
     full_context |-> full_context, author |-> author,
     cognitive_load |-> cognitive_load, uncertainty |-> uncertainty,
     created_at |-> created_at]

CommitParent(child_id, parent_id) == <<child_id, parent_id>>

\* ---- queries ----
ProjectIds == {p.id : p \in projects}
TaskIds == {t.id : t \in tasks}
CommitIds == {c.id : c \in commits}

get_branch(task_id, name) ==
    {b \in branches : b.task_id = task_id /\ b.name = name}

HasBranch(task_id, name) == get_branch(task_id, name) # {}

HeadOf(task_id, name) ==
    (CHOOSE b \in get_branch(task_id, name) : TRUE).head_commit_id

get_commit_unfiltered(commit_id) == commits

get_commit(commit_id) == {c \in commits : c.id = commit_id}

CommitRow(commit_id) == CHOOSE c \in commits : c.id = commit_id

get_commit_parents(commit_id) ==
    IF get_commit(commit_id) = {} THEN {}
    ELSE {c.id : c \in {c \in commits : <<commit_id, c.id>> \in parents}}

SeqToSet(s) == {s[i] : i \in 1..Len(s)}

\* ---- pending writes of a transaction ----
EmptyDelta ==
    [tasks |-> {}, branches |-> {}, commits |-> {}, parents |-> <<>>,
     heads |-> {}]

Fail(err) ==
    [ok |-> FALSE, err |-> err, ret |-> NULL, old_head |-> NULL,
     delta |-> EmptyDelta]

Ok(ret, old_head, delta) ==
    [ok |-> TRUE, err |-> "", ret |-> ret, old_head |-> old_head,
     delta |-> delta]

NoCall ==
    [op |-> "none", ok |-> TRUE, err |-> "", task_id |-> NULL, name |-> "",
     arg |-> NULL, ret |-> NULL, old_head |-> NULL]

Outcome(op, r, task_id, name, arg) ==
    IF r.ok
    THEN [op |-> op, ok |-> TRUE, err |-> "", task_id |-> task_id,
          name |-> name, arg |-> arg, ret |-> r.ret, old_head |-> r.old_head]
    ELSE [op |-> op, ok |-> FALSE, err |-> r.err, task_id |-> task_id,
          name |-> name, arg |-> arg, ret |-> NULL, old_head |-> NULL]

\* no get_project_hierarchy call is running
NoHierarchy == [status |-> "idle", stack |-> <<>>]

\* the state load() returns when no file was saved; "" stands for None
NoSelection == [current_task |-> "", current_branch |-> ""]

IdleTx == [pc |-> "idle", call |-> NoCall, delta |-> EmptyDelta]

\* ---- the constraints the database checks when a transaction commits ----
DuplicateRows(s) == \E i, j \in 1..Len(s) : i # j /\ s[i] = s[j]

\* a schema whose branches.head_commit_id carries no foreign key
head_commit_fk_absent(b, d) == FALSE

\* FOREIGN KEY (head_commit_id) REFERENCES context_commits (id)
head_commit_fk_violated(b, d) ==
    /\ b.head_commit_id # NULL
    /\ b.head_commit_id \notin CommitIds \cup {c.id : c \in d.commits}

IntegrityError(d) ==
    \/ \E t \in d.tasks : \E u \in tasks :
          u.id # t.id /\ u.project_id = t.project_id /\ u.name = t.name
    \/ \E t \in d.tasks : t.project_id \notin ProjectIds
    \/ \E b \in d.branches : \E c \in branches :
          c.task_id = b.task_id /\ c.name = b.name
    \/ \E b \in d.branches :
          \/ b.task_id \notin TaskIds \cup {t.id : t \in d.tasks}
          \/ head_commit_fk_violated(b, d)
    \/ \E c \in d.commits : c.task_id \notin TaskIds
    \/ DuplicateRows(d.parents)
    \/ \E i \in 1..Len(d.parents) :
          \/ d.parents[i] \in parents
          \/ d.parents[i][1] \notin CommitIds \cup {c.id : c \in d.commits}
          \/ d.parents[i][2] \notin CommitIds \cup {c.id : c \in d.commits}
    \/ \E h \in d.heads : ~HasBranch(h.task_id, h.name)

UpdatedBranchOfTask(b, d) ==
    IF \E h \in d.heads : h.task_id = b.task_id
    THEN LET h == CHOOSE h \in d.heads : h.task_id = b.task_id
         IN  [b EXCEPT !.head_commit_id = h.head_commit_id]
    ELSE b

UpdatedBranch(b, d) ==
    IF \E h \in d.heads : h.task_id = b.task_id /\ h.name = b.name
    THEN LET h == CHOOSE h \in d.heads :
                      h.task_id = b.task_id /\ h.name = b.name
         IN  [b EXCEPT !.head_commit_id = h.head_commit_id]
    ELSE b

\* a commit() that also rewrites the commits the new ones are linked to
PersistAmendParents(d) ==
    /\ tasks' = tasks \cup d.tasks
    /\ branches' = {UpdatedBranch(b, d) : b \in branches} \cup d.branches
    /\ commits' =
          {IF \E e \in SeqToSet(d.parents) : e[2] = c.id
           THEN [c EXCEPT !.message = "amended"] ELSE c : c \in commits}
          \cup d.commits
    /\ parents' = parents \cup SeqToSet(d.parents)

\* session.commit(): every pending write becomes visible in one step
Persist(d) ==
    /\ tasks' = tasks \cup d.tasks
    /\ branches' = {UpdatedBranch(b, d) : b \in branches} \cup d.branches
    /\ commits' = commits \cup d.commits
    /\ parents' = parents \cup SeqToSet(d.parents)

\* session.flush() sends the INSERT inside the open transaction: no other
\* session sees the row before the commit.
FlushAutocommit(d) == [EmptyDelta EXCEPT !.tasks = d.tasks, !.commits = d.commits]
flush(d) == EmptyDelta


\* ---- ProjectService ----
\* a project created under a parent_id that is not looked up
create_project_any_parent(name, parent_id) ==
    IF \E p \in projects : p.name = name THEN Fail("duplicate")
    ELSE Ok(nextProjectId, NULL, EmptyDelta)

create_project(name, parent_id) ==
    IF \E p \in projects : p.name = name THEN Fail("duplicate")
    ELSE IF parent_id # NULL /\ parent_id \notin ProjectIds
    THEN Fail("not_found")
    ELSE Ok(nextProjectId, NULL, EmptyDelta)

\* a rename that does not look for another project named new_name
rename_project_unchecked(project_id, new_name) ==
    IF project_id \notin ProjectIds THEN Fail("not_found")
    ELSE Ok(project_id, NULL, EmptyDelta)

\* returns None for a missing project, raises when another one has new_name
rename_project(project_id, new_name) ==
    IF project_id \notin ProjectIds THEN Fail("not_found")
    ELSE IF \E p \in projects : p.name = new_name /\ p.id # project_id
    THEN Fail("duplicate")
    ELSE Ok(project_id, NULL, EmptyDelta)

\* returns False for a missing project, True after session.delete(project)
delete_task(task_id) ==
    IF task_id \notin TaskIds THEN Fail("not_found")
    ELSE Ok(task_id, NULL, EmptyDelta)

delete_project(project_id) ==
    IF project_id \notin ProjectIds THEN Fail("not_found")
    ELSE Ok(project_id, NULL, EmptyDelta)

get_project_by_name(name) == {p \in projects : p.name = name}

\* the tasks a project owns, which its deletion cascades to
OwnedTasks(project_id) == {t \in tasks : t.project_id = project_id}

\* ---- TaskService ----
main_branch_none(task_id) == {}
main_branch(task_id) == {Branch(task_id, "main", NULL)}

\* a task name checked against the tasks of every project
create_task_global_name(project_id, name, external_id) ==
    IF project_id \notin ProjectIds THEN Fail("not_found")
    ELSE IF \E t \in tasks : t.name = name
    THEN Fail("duplicate")
    ELSE LET task == Task(nextTaskId, project_id, name, external_id)
         IN  Ok(task.id, NULL,
                [EmptyDelta EXCEPT !.tasks = {task},
                                   !.branches = main_branch(task.id)])

create_task(project_id, name, external_id) ==
    IF project_id \notin ProjectIds THEN Fail("not_found")
    ELSE IF \E t \in tasks : t.project_id = project_id /\ t.name = name
    THEN Fail("duplicate")
    ELSE LET task == Task(nextTaskId, project_id, name, external_id)
         IN  Ok(task.id, NULL,
                [EmptyDelta EXCEPT !.tasks = {task},
                                   !.branches = main_branch(task.id)])

\* ---- BranchService ----
\* a branch created without its starting commit
create_branch_no_head(task_id, name, from_commit_id) ==
    IF task_id \notin TaskIds THEN Fail("not_found")
    ELSE IF HasBranch(task_id, name) THEN Fail("duplicate")
    ELSE Ok(NULL, NULL,
            [EmptyDelta EXCEPT !.branches = {Branch(task_id, name, NULL)}])

create_branch(task_id, name, from_commit_id) ==
    IF task_id \notin TaskIds THEN Fail("not_found")
    ELSE IF HasBranch(task_id, name) THEN Fail("duplicate")
    ELSE Ok(NULL, NULL,
            [EmptyDelta EXCEPT
                !.branches = {Branch(task_id, name, from_commit_id)}])

\* returns False for a missing branch, raises for "main"
delete_branch(task_id, name) ==
    IF ~HasBranch(task_id, name) THEN Fail("not_found")
    ELSE IF name = "main" THEN Fail("forbidden")
    ELSE Ok(NULL, HeadOf(task_id, name), EmptyDelta)

\* a rename that does not look for a branch already named new_name
rename_branch_unchecked(task_id, old_name, new_name) ==
    IF ~HasBranch(task_id, old_name) THEN Fail("not_found")
    ELSE Ok(NULL, HeadOf(task_id, old_name), EmptyDelta)

\* returns None for a missing branch, raises when new_name is taken
rename_branch(task_id, old_name, new_name) ==
    IF ~HasBranch(task_id, old_name) THEN Fail("not_found")
    ELSE IF HasBranch(task_id, new_name) THEN Fail("duplicate")
    ELSE Ok(NULL, HeadOf(task_id, old_name), EmptyDelta)

\* ---- CommitService ----
\* datetime.utcnow at the INSERT: later commits carry later timestamps
utcnow == nextCommitId

create_commit_parents_none(commit_id, head_commit_id) == <<>>
create_commit_parents(commit_id, head_commit_id) ==
    IF head_commit_id # NULL
    THEN <<CommitParent(commit_id, head_commit_id)>>
    ELSE <<>>

\* a commit that is stored even when the branch cannot be resolved
create_commit_unresolved(task_id, branch_name, message, context, author, cognitive_load, uncertainty) ==
    LET head == IF HasBranch(task_id, branch_name)
                THEN HeadOf(task_id, branch_name) ELSE NULL
        commit == ContextCommit(nextCommitId, task_id, message, context,
                                author, cognitive_load, uncertainty, utcnow)
    IN  Ok(commit.id, head,
           [EmptyDelta EXCEPT
               !.commits = {commit},
               !.parents = create_commit_parents(commit.id, head),
               !.heads = {Branch(task_id, branch_name, commit.id)}])

create_commit(task_id, branch_name, message, context, author, cognitive_load, uncertainty) ==
    IF task_id \notin TaskIds THEN Fail("not_found")
    ELSE IF ~HasBranch(task_id, branch_name) THEN Fail("not_found")
    ELSE LET head == HeadOf(task_id, branch_name)
             commit == ContextCommit(nextCommitId, task_id, message, context,
                                     author, cognitive_load, uncertainty,
                                     utcnow)
         IN  Ok(commit.id, head,
                [EmptyDelta EXCEPT
                    !.commits = {commit},
                    !.parents = create_commit_parents(commit.id, head),
                    !.heads = {Branch(task_id, branch_name, commit.id)}])

\* the first edge written with child and parent exchanged
merge_commit_parents_rebased(commit_id, head_commit_id, source_commit_id) ==
    <<CommitParent(commit_id, source_commit_id),
      CommitParent(source_commit_id, head_commit_id)>>

merge_commit_parents_source_only(commit_id, head_commit_id, source_commit_id) ==
    <<CommitParent(commit_id, source_commit_id)>>

merge_commit_parents_swapped(commit_id, head_commit_id, source_commit_id) ==
    <<CommitParent(head_commit_id, commit_id),
      CommitParent(commit_id, source_commit_id)>>

merge_commit_parents_target_only(commit_id, head_commit_id, source_commit_id) ==
    <<CommitParent(commit_id, head_commit_id)>>
merge_commit_parents(commit_id, head_commit_id, source_commit_id) ==
    <<CommitParent(commit_id, head_commit_id),
      CommitParent(commit_id, source_commit_id)>>

\* a merge into an empty branch that records the source as the only parent
merge_commit_into_empty(task_id, target_branch, source_commit_id, message, author) ==
    IF ~HasBranch(task_id, target_branch) THEN Fail("not_found")
    ELSE IF get_commit(source_commit_id) = {} THEN Fail("not_found")
    ELSE LET head == HeadOf(task_id, target_branch)
             commit == ContextCommit(nextCommitId, task_id, message, "",
                                     author, NULL, NULL, utcnow)
         IN  Ok(commit.id, head,
                [EmptyDelta EXCEPT
                    !.commits = {commit},
                    !.parents =
                        IF head = NULL
                        THEN <<CommitParent(commit.id, source_commit_id)>>
                        ELSE merge_commit_parents(commit.id, head,
                                                  source_commit_id),
                    !.heads = {Branch(task_id, target_branch, commit.id)}])

merge_commit(task_id, target_branch, source_commit_id, message, author) ==
    IF ~HasBranch(task_id, target_branch) THEN Fail("not_found")
    ELSE IF HeadOf(task_id, target_branch) = NULL THEN Fail("no_commits")
    ELSE IF get_commit(source_commit_id) = {} THEN Fail("not_found")
    ELSE LET head == HeadOf(task_id, target_branch)
             commit == ContextCommit(nextCommitId, task_id, message, "",
                                     author, NULL, NULL, utcnow)
         IN  Ok(commit.id, head,
                [EmptyDelta EXCEPT
                    !.commits = {commit},
                    !.parents = merge_commit_parents(commit.id, head,
                                                     source_commit_id),
                    !.heads = {Branch(task_id, target_branch, commit.id)}])

\* get_history: the recursive CTE.  The rows of one depth are a bag, commit id
\* -> number of rows, because UNION ALL keeps every row the join produces.
RECURSIVE Sum(_, _)
Sum(f, S) ==
    IF S = {} THEN 0
    ELSE LET x == CHOOSE x \in S : TRUE IN f[x] + Sum(f, S \ {x})

\* base case: WHERE cc.id = :head_commit_id
base_rows(head_commit_id) ==
    [c \in CommitIds |-> IF c = head_commit_id THEN 1 ELSE 0]

\* recursive case: the parents of every row of the previous depth
parent_rows(rows) ==
    [p \in CommitIds |->
        Sum([c \in CommitIds |-> IF <<c, p>> \in parents THEN rows[c] ELSE 0],
            CommitIds)]

\* WHERE ch.depth < :limit
within_limit_short(depth, limit) == depth + 1 < limit
within_limit(depth, limit) == depth < limit

RECURSIVE commit_history(_, _, _)
commit_history(rows, depth, limit) ==
    IF \A c \in CommitIds : rows[c] = 0 THEN <<>>
    ELSE <<rows>> \o (IF within_limit(depth, limit)
                      THEN commit_history(parent_rows(rows), depth + 1, limit)
                      ELSE <<>>)

\* ORDER BY depth, created_at DESC
RECURSIVE order_by_created_at_desc(_)
order_by_created_at_desc(S) ==
    IF S = {} THEN <<>>
    ELSE LET m == CHOOSE c \in S : \A d \in S :
                      CommitRow(d).created_at <= CommitRow(c).created_at
         IN  <<m>> \o order_by_created_at_desc(S \ {m})

RECURSIVE rows_of_depth(_, _, _)
rows_of_depth(ids, rows, depth) ==
    IF ids = <<>> THEN <<>>
    ELSE [i \in 1..rows[Head(ids)] |-> [id |-> Head(ids), depth |-> depth]]
         \o rows_of_depth(Tail(ids), rows, depth)

RECURSIVE order_by_depth(_, _)
order_by_depth(levels, depth) ==
    IF levels = <<>> THEN <<>>
    ELSE rows_of_depth(
            order_by_created_at_desc({c \in CommitIds : Head(levels)[c] > 0}),
            Head(levels), depth)
         \o order_by_depth(Tail(levels), depth + 1)

\* a branch without head read as standing at the task's newest commit
history_rows_newest(task_id, branch_name, limit) ==
    LET own == {c.id : c \in {x \in commits : x.task_id = task_id}}
        head == IF HeadOf(task_id, branch_name) # NULL \/ own = {}
                THEN HeadOf(task_id, branch_name)
                ELSE CHOOSE c \in own : \A d \in own : d <= c
    IN  IF ~HasBranch(task_id, branch_name) THEN <<>>
        ELSE IF head = NULL THEN <<>>
        ELSE order_by_depth(commit_history(base_rows(head), 1, limit), 1)

\* the rows of the query, each with its depth column
history_rows(task_id, branch_name, limit) ==
    IF ~HasBranch(task_id, branch_name) THEN <<>>
    ELSE IF HeadOf(task_id, branch_name) = NULL THEN <<>>
    ELSE order_by_depth(
            commit_history(base_rows(HeadOf(task_id, branch_name)), 1, limit),
            1)

\* a query that falls back to main when the named branch is missing
get_history_or_main(task_id, branch_name, limit) ==
    LET name == IF HasBranch(task_id, branch_name) THEN branch_name
                ELSE "main"
        rows == history_rows(task_id, name, limit)
    IN  [i \in 1..Len(rows) |-> CommitRow(rows[i].id)]

\* the ContextCommit objects built from the rows
get_history(task_id, branch_name, limit) ==
    LET rows == history_rows(task_id, branch_name, limit)
    IN  [i \in 1..Len(rows) |-> CommitRow(rows[i].id)]

\* ---- one caller: a service call and the commit of its session ----
Init ==
    /\ projects = {}
    /\ tasks = {}
    /\ branches = {}
    /\ commits = {}
    /\ parents = {}
    /\ nextProjectId = 1
    /\ nextTaskId = 1
    /\ nextCommitId = 1
    /\ tx = [s \in Sessions |-> IdleTx]
    /\ hier = NoHierarchy
    /\ state = NoSelection
    /\ last = NoCall

\* the call r and session.commit(); a constraint violation rolls back
CallAndCommit(op, r, task_id, name, arg) ==
    IF r.ok /\ ~IntegrityError(r.delta)
    THEN /\ Persist(r.delta)
         /\ nextTaskId' = nextTaskId + Cardinality(r.delta.tasks)
         /\ nextCommitId' = nextCommitId + Cardinality(r.delta.commits)
         /\ last' = Outcome(op, r, task_id, name, arg)
    ELSE /\ UNCHANGED <<tasks, branches, commits, parents,
                        nextTaskId, nextCommitId>>
         /\ last' = Outcome(op, IF r.ok THEN Fail("integrity") ELSE r,
                            task_id, name, arg)

\* FOREIGN KEY (parent_id) REFERENCES projects (id), for a row to insert
parent_fk_violated(id, parent_id) ==
    parent_id # NULL /\ parent_id \notin ProjectIds \cup {id}

CreateProject(name, parent_id) ==
    LET r == IF parent_fk_violated(nextProjectId, parent_id)
                /\ create_project(name, parent_id).ok
             THEN Fail("integrity") ELSE create_project(name, parent_id) IN
    /\ IF r.ok
       THEN /\ projects' = projects \cup
                             {Project(nextProjectId, name, parent_id)}
            /\ nextProjectId' = nextProjectId + 1
       ELSE UNCHANGED <<projects, nextProjectId>>
    /\ last' = Outcome("create_project", r, NULL, name, parent_id)
    /\ UNCHANGED <<tasks, branches, commits, parents, nextTaskId,
                   nextCommitId, tx, hier, state>>

CreateTask(project_id, name) ==
    LET r == create_task(project_id, name, NULL) IN
    /\ CallAndCommit("create_task", r, NULL, name, project_id)
    /\ UNCHANGED <<projects, nextProjectId, tx, hier, state>>

CreateBranch(task_id, name, from_commit_id) ==
    LET r == create_branch(task_id, name, from_commit_id) IN
    /\ CallAndCommit("create_branch", r, task_id, name, from_commit_id)
    /\ UNCHANGED <<projects, nextProjectId, tx, hier, state>>

\* a delete that also drops the commit the branch pointed to
DeleteBranchAndHead(task_id, name) ==
    LET r == delete_branch(task_id, name) IN
    /\ branches' = IF r.ok THEN branches \ get_branch(task_id, name)
                   ELSE branches
    /\ commits' = IF r.ok THEN commits \ get_commit(r.old_head)
                  ELSE commits
    /\ last' = Outcome("delete_branch", r, task_id, name, NULL)
    /\ UNCHANGED <<projects, tasks, parents, nextProjectId,
                   nextTaskId, nextCommitId, tx, hier, state>>

DeleteBranch(task_id, name) ==
    LET r == delete_branch(task_id, name) IN
    /\ branches' = IF r.ok THEN branches \ get_branch(task_id, name)
                   ELSE branches
    /\ last' = Outcome("delete_branch", r, task_id, name, NULL)
    /\ UNCHANGED <<projects, tasks, commits, parents, nextProjectId,
                   nextTaskId, nextCommitId, tx, hier, state>>

RenameBranch(task_id, old_name, new_name) ==
    LET r == rename_branch(task_id, old_name, new_name) IN
    /\ branches' = IF r.ok
                   THEN {IF b.task_id = task_id /\ b.name = old_name
                         THEN [b EXCEPT !.name = new_name] ELSE b :
                         b \in branches}
                   ELSE branches
    /\ last' = Outcome("rename_branch", r, task_id, old_name, new_name)
    /\ UNCHANGED <<projects, tasks, commits, parents, nextProjectId,
                   nextTaskId, nextCommitId, tx, hier, state>>

CreateCommit(task_id, branch_name, message, context, author) ==
    LET r == create_commit(task_id, branch_name, message, context, author,
                           NULL, NULL) IN
    /\ CallAndCommit("create_commit", r, task_id, branch_name, NULL)
    /\ UNCHANGED <<projects, nextProjectId, tx, hier, state>>

MergeCommit(task_id, target_branch, source_commit_id, message, author) ==
    LET r == merge_commit(task_id, target_branch, source_commit_id, message,
                          author) IN
    /\ CallAndCommit("merge_commit", r, task_id, target_branch,
                     source_commit_id)
    /\ UNCHANGED <<projects, nextProjectId, tx, hier, state>>

RenameProject(project_id, new_name) ==
    LET r == rename_project(project_id, new_name)
        taken == \E p \in projects : p.id # project_id /\ p.name = new_name
    IN
    /\ IF r.ok /\ ~taken
       THEN /\ projects' = {IF p.id = project_id
                            THEN [p EXCEPT !.name = new_name] ELSE p :
                            p \in projects}
            /\ last' = Outcome("rename_project", r, NULL, new_name, project_id)
       ELSE /\ UNCHANGED projects
            /\ last' = Outcome("rename_project",
                               IF r.ok THEN Fail("integrity") ELSE r,
                               NULL, new_name, project_id)
    /\ UNCHANGED <<tasks, branches, commits, parents, nextProjectId,
                   nextTaskId, nextCommitId, tx, hier, state>>

\* a schema whose commit_parents carries no foreign keys
commit_parents_fk_absent(task_ids) == FALSE

\* the rows that keep the DELETE of these tasks' commits from committing:
\* commit_parents references context_commits and nothing removes its rows
commit_parents_fk_violated(task_ids) ==
    \E e \in parents : \E c \in commits :
        c.task_id \in task_ids /\ (e[1] = c.id \/ e[2] = c.id)

\* cascade="all, delete-orphan" of Task.commits and Task.branches; a branch
\* of another task that points at a deleted commit loses its head
DeleteTasks(task_ids) ==
    /\ tasks' = {t \in tasks : t.id \notin task_ids}
    /\ commits' = {c \in commits : c.task_id \notin task_ids}
    /\ branches' =
          {IF \E c \in commits : c.id = b.head_commit_id /\ c.task_id \in task_ids
           THEN [b EXCEPT !.head_commit_id = NULL] ELSE b :
           b \in {x \in branches : x.task_id \notin task_ids}}
    /\ UNCHANGED parents

\* delete_task and session.commit()
DeleteTask(task_id) ==
    LET r == delete_task(task_id) IN
    /\ IF r.ok /\ ~commit_parents_fk_violated({task_id})
       THEN /\ DeleteTasks({task_id})
            /\ last' = Outcome("delete_task", r, task_id, "", NULL)
       ELSE /\ UNCHANGED <<tasks, branches, commits, parents>>
            /\ last' = Outcome("delete_task",
                               IF r.ok THEN Fail("integrity") ELSE r,
                               task_id, "", NULL)
    /\ UNCHANGED <<projects, nextProjectId, nextTaskId, nextCommitId, tx, hier,
                   state>>

DeleteProject(project_id) ==
    LET r == delete_project(project_id)
        owned == {t.id : t \in OwnedTasks(project_id)}
        violated == \/ \E p \in projects : p.parent_id = project_id
                    \/ commit_parents_fk_violated(owned)
    IN
    /\ IF r.ok /\ ~violated
       THEN /\ projects' = {p \in projects : p.id # project_id}
            /\ DeleteTasks(owned)
            /\ last' = Outcome("delete_project", r, NULL, "", project_id)
       ELSE /\ UNCHANGED dbvars
            /\ last' = Outcome("delete_project",
                               IF r.ok THEN Fail("integrity") ELSE r,
                               NULL, "", project_id)
    /\ UNCHANGED <<nextProjectId, nextTaskId, nextCommitId, tx, hier, state>>

\* ---- the current-selection store (StateManager) ----
load == state

set_current_task_only(st, task_name) ==
    [current_task |-> task_name, current_branch |-> ""]

\* what set_current_task saves when load() returned st
set_current_task(st, task_name) == [st EXCEPT !.current_task = task_name]

set_current_branch(st, branch_name) ==
    [st EXCEPT !.current_branch = branch_name]

get_current_task == load.current_task

get_current_branch == load.current_branch

resolve_task_name(task_opt) ==
    IF task_opt # "" THEN task_opt ELSE get_current_task

\* Task.name == name, over all projects
get_task_by_name(name) == {t \in tasks : t.name = name}

current_task_before_create(created, name) == set_current_task(load, name)

\* StateManager.set_current_task(name) follows create_task and commit()
current_task_after_create(created, name) ==
    IF created THEN set_current_task(load, name) ELSE load

\* handle_create_task: create_task, session.commit(), then the optional
\* initial commit on main and a second session.commit()
HandleCreateTask(project, name, message, context, author) ==
    LET found == get_project_by_name(project)
        project_obj == CHOOSE p \in found : TRUE
        r == IF found = {} THEN Fail("not_found")
             ELSE create_task(project_obj.id, name, NULL)
        created == r.ok /\ ~IntegrityError(r.delta)
        initial == message # "" \/ context # ""
        commit == ContextCommit(nextCommitId, r.ret,
                                IF message # "" THEN message
                                ELSE "Initial commit",
                                context, author, NULL, NULL, utcnow)
    IN
    /\ IF ~created
       THEN /\ UNCHANGED <<tasks, branches, commits, parents, nextTaskId,
                           nextCommitId>>
            /\ last' = Outcome("handle_create_task",
                               IF r.ok THEN Fail("integrity") ELSE r,
                               NULL, name, project)
       ELSE /\ tasks' = tasks \cup r.delta.tasks
            /\ nextTaskId' = nextTaskId + 1
            /\ IF initial /\ context # ""
               THEN /\ commits' = commits \cup {commit}
                    /\ parents' = parents \cup
                          SeqToSet(create_commit_parents(commit.id, NULL))
                    /\ branches' = branches \cup
                          {Branch(r.ret, "main", commit.id)}
                    /\ nextCommitId' = nextCommitId + 1
                    /\ last' = Outcome("handle_create_task", r, r.ret, name,
                                       project)
               ELSE /\ branches' = branches \cup r.delta.branches
                    /\ UNCHANGED <<commits, parents, nextCommitId>>
                    /\ last' = Outcome("handle_create_task",
                                       IF initial
                                       THEN Fail("context_required") ELSE r,
                                       r.ret, name, project)
    /\ state' = current_task_after_create(created, name)
    /\ UNCHANGED <<projects, nextProjectId, tx, hier>>

\* handle_switch: the selections given are saved, one write each
HandleSwitch(task, branch) ==
    LET switched == IF task # "" THEN set_current_task(load, task) ELSE load
        saved == IF branch # "" THEN set_current_branch(switched, branch)
                 ELSE switched
        writes == (IF task # "" THEN 1 ELSE 0) + (IF branch # "" THEN 1 ELSE 0)
    IN
    /\ state' = saved
    /\ last' = [NoCall EXCEPT !.op = "handle_switch", !.name = branch,
                              !.arg = task, !.ret = writes]
    /\ UNCHANGED <<projects, tasks, branches, commits, parents,
                   nextProjectId, nextTaskId, nextCommitId, tx, hier>>

\* handle_commit: the task comes from the argument or the stored selection,
\* the branch from the argument or "main"; create_commit and session.commit()
HandleCommit(task, branch, message, context, author) ==
    LET task_name == resolve_task_name(task)
        branch_name == IF branch # "" THEN branch ELSE "main"
        found == get_task_by_name(task_name)
    IN
    /\ IF task_name = "" \/ context = "" \/ found = {}
       THEN CallAndCommit("handle_commit",
                          Fail(IF task_name = "" THEN "task_required"
                               ELSE IF context = "" THEN "context_required"
                               ELSE "not_found"),
                          NULL, branch, task)
       ELSE \E task_obj \in found :
               CallAndCommit("handle_commit",
                             create_commit(task_obj.id, branch_name, message,
                                           context, author, NULL, NULL),
                             task_obj.id, branch, task)
    /\ UNCHANGED <<projects, nextProjectId, tx, hier, state>>

Next ==
    \/ \E name \in ProjectNames, parent_id \in 0..nextProjectId :
          CreateProject(name, parent_id)
    \/ \E project_id \in 1..nextProjectId, name \in TaskNames :
          CreateTask(project_id, name)
    \/ \E task_id \in 1..nextTaskId, name \in BranchNames,
          from_commit_id \in 0..nextCommitId :
          CreateBranch(task_id, name, from_commit_id)
    \/ \E task_id \in 1..nextTaskId, name \in BranchNames :
          DeleteBranch(task_id, name)
    \/ \E task_id \in 1..nextTaskId, old_name, new_name \in BranchNames :
          RenameBranch(task_id, old_name, new_name)
    \/ \E task_id \in 1..nextTaskId, name \in BranchNames, message \in Messages,
          context \in Contexts, author \in Authors :
          /\ nextCommitId <= MaxCommits
          /\ CreateCommit(task_id, name, message, context, author)
    \/ \E task_id \in 1..nextTaskId, name \in BranchNames,
          source_commit_id \in 1..nextCommitId, message \in Messages,
          author \in Authors :
          /\ nextCommitId <= MaxCommits
          /\ MergeCommit(task_id, name, source_commit_id, message, author)

Spec == Init /\ [][Next]_vars

\* ---- ordinary commits on main branches only ----
NextLinear ==
    \/ \E name \in ProjectNames : CreateProject(name, NULL)
    \/ \E project_id \in 1..nextProjectId, name \in ChainTaskNames :
          CreateTask(project_id, name)
    \/ \E task_id \in 1..nextTaskId, message \in Messages,
          context \in Contexts, author \in Authors :
          /\ nextCommitId <= MaxChain
          /\ CreateCommit(task_id, "main", message, context, author)

SpecLinear == Init /\ [][NextLinear]_vars

\* ---- two projects: project operations, tasks and their commits ----
NextProject ==
    \/ \E name \in TwoProjectNames, parent_id \in 0..nextProjectId :
          /\ nextProjectId <= MaxProjectIds
          /\ CreateProject(name, parent_id)
    \/ \E project_id \in 1..nextProjectId, new_name \in TwoProjectNames :
          RenameProject(project_id, new_name)
    \/ \E project_id \in 1..nextProjectId : DeleteProject(project_id)
    \/ \E project_id \in 1..nextProjectId, name \in TaskNames :
          /\ nextTaskId <= MaxTaskIds
          /\ CreateTask(project_id, name)
    \/ \E project \in TwoProjectNames, name \in TaskNames,
          message \in OptionalMessages, context \in OptionalContexts,
          author \in Authors :
          /\ nextTaskId <= MaxTaskIds
          /\ nextCommitId <= MaxOwnedCommits
          /\ HandleCreateTask(project, name, message, context, author)
    \/ \E task_id \in 1..nextTaskId, message \in Messages,
          context \in Contexts, author \in Authors :
          /\ nextCommitId <= MaxOwnedCommits
          /\ CreateCommit(task_id, "main", message, context, author)

SpecProject == Init /\ [][NextProject]_vars

\* ---- the project hierarchy store alone ----
NextTree ==
    \/ \E name \in TreeProjectNames, parent_id \in 0..nextProjectId :
          /\ nextProjectId <= MaxProjectIds
          /\ CreateProject(name, parent_id)
    \/ \E project_id \in 1..nextProjectId, new_name \in TreeProjectNames :
          RenameProject(project_id, new_name)
    \/ \E project_id \in 1..nextProjectId : DeleteProject(project_id)

SpecTree == Init /\ [][NextTree]_vars

\* ---- two tasks of one project, branches forked from any commit ----
NextCross ==
    \/ \E name \in ProjectNames : CreateProject(name, NULL)
    \/ \E project_id \in 1..nextProjectId, name \in ChainTaskNames :
          CreateTask(project_id, name)
    \/ \E task_id \in 1..nextTaskId, from_commit_id \in 0..nextCommitId :
          CreateBranch(task_id, "feature", from_commit_id)
    \/ \E task_id \in 1..nextTaskId, name \in BranchNames, message \in Messages,
          context \in Contexts, author \in Authors :
          /\ nextCommitId <= MaxCrossCommits
          /\ CreateCommit(task_id, name, message, context, author)
    \/ \E task_id \in 1..nextTaskId, name \in BranchNames,
          source_commit_id \in 1..nextCommitId, message \in Messages,
          author \in Authors :
          /\ nextCommitId <= MaxCrossCommits + 1
          /\ MergeCommit(task_id, name, source_commit_id, message, author)

SpecCross == Init /\ [][NextCross]_vars

\* ---- two tasks, cross-task branches, deletion of tasks and projects ----
NextDelete ==
    \/ \E name \in ProjectNames :
          /\ nextProjectId <= MaxDeleteProjects
          /\ CreateProject(name, NULL)
    \/ \E project_id \in 1..nextProjectId, name \in ChainTaskNames :
          /\ nextTaskId <= MaxDeleteTasks
          /\ CreateTask(project_id, name)
    \/ \E task_id \in 1..nextTaskId, from_commit_id \in 0..nextCommitId :
          CreateBranch(task_id, "feature", from_commit_id)
    \/ \E task_id \in 1..nextTaskId, name \in BranchNames, message \in Messages,
          context \in Contexts, author \in Authors :
          /\ nextCommitId <= MaxDeleteCommits
          /\ CreateCommit(task_id, name, message, context, author)
    \/ \E task_id \in 1..nextTaskId : DeleteTask(task_id)
    \/ \E project_id \in 1..nextProjectId : DeleteProject(project_id)

SpecDelete == Init /\ [][NextDelete]_vars

\* ---- the commands that read and write the current selection ----
NextSelection ==
    \/ \E name \in ProjectNames : CreateProject(name, NULL)
    \/ \E project \in ProjectNames \cup {"Q"}, name \in ChainTaskNames,
          author \in Authors :
          /\ nextTaskId <= MaxTaskIds
          /\ HandleCreateTask(project, name, "", "", author)
    \/ \E task_id \in 1..nextTaskId : CreateBranch(task_id, "feature", NULL)
    \/ \E task \in OptionalTasks, branch \in OptionalBranches :
          HandleSwitch(task, branch)
    \/ \E task \in OptionalTasks, branch \in OptionalBranches,
          message \in Messages, context \in OptionalContexts,
          author \in Authors :
          /\ nextCommitId <= MaxSelectionCommits
          /\ HandleCommit(task, branch, message, context, author)

SpecSelection == Init /\ [][NextSelection]_vars

\* ---- get_project_hierarchy over any stored projects table ----
\* every table the constraints of the schema admit: unique ids and names,
\* parent_id null or the id of a row
StoredProjects ==
    UNION {{{Project(i, StoredNames[i], f[i]) : i \in 1..n} :
               f \in [1..n -> 0..n]} : n \in 1..MaxStoredProjects}

NameRank(name) ==
    CHOOSE i \in 1..Len(StoredNames) : StoredNames[i] = name

RECURSIVE order_by_name(_)
order_by_name(S) ==
    IF S = {} THEN <<>>
    ELSE LET m == CHOOSE p \in S :
                      \A q \in S : NameRank(p.name) <= NameRank(q.name)
         IN  <<m.id>> \o order_by_name(S \ {m})

list_child_projects(parent_id) ==
    order_by_name({p \in projects : p.parent_id = parent_id})

\* one activation of get_project_hierarchy: the project it was called for
\* and the children its list comprehension has not visited yet
Frame(project_id) ==
    [id |-> project_id, children |-> list_child_projects(project_id)]

HierarchyCall(project_id) ==
    /\ hier.status = "idle"
    /\ hier' = IF project_id \notin ProjectIds
               THEN [status |-> "returned", stack |-> <<>>]
               ELSE [status |-> "running", stack |-> <<Frame(project_id)>>]
    /\ UNCHANGED <<projects, tasks, branches, commits, parents,
                   nextProjectId, nextTaskId, nextCommitId, tx, state,
                   last>>

\* the comprehension calls get_project_hierarchy(child.id)
HierarchyRecurse ==
    /\ hier.status = "running"
    /\ hier.stack[Len(hier.stack)].children # <<>>
    /\ LET n == Len(hier.stack)
           top == hier.stack[n]
           rest == [hier.stack EXCEPT ![n].children = Tail(top.children)]
       IN  hier' = IF n >= RecursionLimit
                   THEN [status |-> "recursion_error", stack |-> hier.stack]
                   ELSE [status |-> "running",
                         stack |-> Append(rest, Frame(Head(top.children)))]
    /\ UNCHANGED <<projects, tasks, branches, commits, parents,
                   nextProjectId, nextTaskId, nextCommitId, tx, state,
                   last>>

\* the comprehension is exhausted: the activation returns its dictionary
HierarchyReturn ==
    /\ hier.status = "running"
    /\ hier.stack[Len(hier.stack)].children = <<>>
    /\ LET rest == SubSeq(hier.stack, 1, Len(hier.stack) - 1)
       IN  hier' = [status |-> IF rest = <<>> THEN "returned" ELSE "running",
                    stack |-> rest]
    /\ UNCHANGED <<projects, tasks, branches, commits, parents,
                   nextProjectId, nextTaskId, nextCommitId, tx, state,
                   last>>

InitHierarchy ==
    /\ projects \in StoredProjects
    /\ tasks = {}
    /\ branches = {}
    /\ commits = {}
    /\ parents = {}
    /\ nextProjectId = Cardinality(projects) + 1
    /\ nextTaskId = 1
    /\ nextCommitId = 1
    /\ tx = [s \in Sessions |-> IdleTx]
    /\ hier = NoHierarchy
    /\ state = NoSelection
    /\ last = NoCall

NextHierarchy ==
    \/ \E project_id \in 1..nextProjectId : HierarchyCall(project_id)
    \/ HierarchyRecurse
    \/ HierarchyReturn

SpecHierarchy == InitHierarchy /\ [][NextHierarchy]_vars

\* ---- two sessions: the call reads and flushes, commit() follows later ----
Begin(s, op, r, task_id, name, arg) ==
    IF r.ok
    THEN /\ tx' = [tx EXCEPT ![s] = [pc |-> "commit",
                                     call |-> Outcome(op, r, task_id, name, arg),
                                     delta |-> r.delta]]
         /\ tasks' = tasks \cup flush(r.delta).tasks
         /\ commits' = commits \cup flush(r.delta).commits
         /\ nextTaskId' = nextTaskId + Cardinality(r.delta.tasks)
         /\ nextCommitId' = nextCommitId + Cardinality(r.delta.commits)
         /\ UNCHANGED <<last, branches, parents>>
    ELSE /\ last' = Outcome(op, r, task_id, name, arg)
         /\ UNCHANGED <<tx, tasks, branches, commits, parents, nextTaskId,
                        nextCommitId>>

BeginCreateTask(s, project_id, name) ==
    /\ tx[s].pc = "idle"
    /\ nextTaskId <= MaxTaskIds
    /\ Begin(s, "create_task", create_task(project_id, name, NULL), NULL,
             name, project_id)
    /\ UNCHANGED <<projects, nextProjectId, hier, state>>

BeginCreateCommit(s, task_id, branch_name, message, context, author) ==
    /\ tx[s].pc = "idle"
    /\ nextCommitId <= MaxCommits
    /\ Begin(s, "create_commit",
             create_commit(task_id, branch_name, message, context, author,
                           NULL, NULL),
             task_id, branch_name, NULL)
    /\ UNCHANGED <<projects, nextProjectId, hier, state>>

\* session.commit() of the handler; a constraint violation rolls back
SessionCommit(s) ==
    /\ tx[s].pc = "commit"
    /\ IF IntegrityError(tx[s].delta)
       THEN /\ last' = Outcome(tx[s].call.op, Fail("integrity"),
                               tx[s].call.task_id, tx[s].call.name, NULL)
            /\ UNCHANGED <<tasks, branches, commits, parents>>
       ELSE /\ Persist(tx[s].delta)
            /\ last' = tx[s].call
    /\ tx' = [tx EXCEPT ![s] = IdleTx]
    /\ UNCHANGED <<projects, nextProjectId, nextTaskId, nextCommitId, hier,
                   state>>

NextConc ==
    \/ \E name \in ProjectNames : CreateProject(name, NULL)
    \/ \E s \in Sessions, project_id \in 1..nextProjectId, name \in TaskNames :
          BeginCreateTask(s, project_id, name)
    \/ \E s \in Sessions, task_id \in 1..nextTaskId, message \in Messages,
          context \in Contexts, author \in Authors :
          BeginCreateCommit(s, task_id, "main", message, context, author)
    \/ \E s \in Sessions : SessionCommit(s)

SpecConc == Init /\ [][NextConc]_vars


\* ---- the project tree ----
RECURSIVE ProjectAncestors(_, _)
\* the projects reachable over parent_id from those of frontier, these included
ProjectAncestors(frontier, seen) ==
    IF frontier \subseteq seen THEN seen
    ELSE ProjectAncestors(
            {p.parent_id : p \in {q \in projects : q.id \in frontier}}
                \ {NULL},
            seen \cup frontier)

\* ---- the commit graph ----
RECURSIVE Ancestors(_, _)
\* the commits reachable from the commits of frontier, these included
Ancestors(frontier, seen) ==
    IF frontier \subseteq seen THEN seen
    ELSE Ancestors({p \in CommitIds : \E c \in frontier : <<c, p>> \in parents},
                   seen \cup frontier)

ReachableFrom(head_commit_id) ==
    IF head_commit_id \in CommitIds THEN Ancestors({head_commit_id}, {})
    ELSE {}

RECURSIVE ShortestDepth(_, _, _, _)
\* length of the shortest parent path to c, the head counting as depth 1
ShortestDepth(frontier, seen, depth, c) ==
    IF c \in frontier THEN depth
    ELSE IF frontier = {} THEN 0
    ELSE ShortestDepth(
            {p \in CommitIds : \E x \in frontier : <<x, p>> \in parents}
                \ (seen \cup frontier),
            seen \cup frontier, depth + 1, c)

CommitsOfTask(task_id) == {c.id : c \in {c \in commits : c.task_id = task_id}}

InFlight(s, op) == tx[s].pc = "commit" /\ tx[s].call.op = op

\* ------------------------------------------------------------------------
\* C1: no committed state holds a task without its branch "main", and when
\* create_task has just committed, that branch has a null head.
C1_TaskWithMainBranch ==
    /\ \A t \in tasks : HasBranch(t.id, "main")
    /\ (last.op = "create_task" /\ last.ok)
          => Branch(last.ret, "main", NULL) \in branches

C1_Witness ==
    /\ last.op = "create_task" /\ last.ok
    /\ \E t \in tasks : t.id = last.ret

\* C2: after any sequence of create_branch, rename_branch and delete_branch
\* every task still has a branch named "main".
C2_MainBranchNeverRemoved ==
    \A t \in tasks : HasBranch(t.id, "main")

\* C3: after a successful create_commit on a branch whose head was H, the
\* branch's head is the new commit and the new commit's parents are {H}, or
\* the empty set when H was null.
C3_CreateCommitLinksOldHead ==
    (last.op = "create_commit" /\ last.ok) =>
        /\ HasBranch(last.task_id, last.name)
        /\ HeadOf(last.task_id, last.name) = last.ret
        /\ get_commit_parents(last.ret) =
              (IF last.old_head = NULL THEN {} ELSE {last.old_head})

C3_Witness ==
    /\ last.op = "create_commit" /\ last.ok
    /\ last.old_head # NULL
    /\ get_commit_parents(last.ret) = {last.old_head}

\* C4: the commit row, its parent edge and the head advance of create_commit
\* become visible together: while the call's transaction is open none of
\* them is visible, once it has committed all of them are, and no branch
\* head points at a commit that is not stored.
C4_CreateCommitAtomic ==
    /\ \A s \in Sessions : InFlight(s, "create_commit") =>
          /\ tx[s].call.ret \notin CommitIds
          /\ \A e \in parents : e[1] # tx[s].call.ret
          /\ \A b \in branches : b.head_commit_id # tx[s].call.ret
    /\ (last.op = "create_commit" /\ last.ok) =>
          /\ last.ret \in CommitIds
          /\ HeadOf(last.task_id, last.name) = last.ret
          /\ last.old_head # NULL => <<last.ret, last.old_head>> \in parents
    /\ \A b \in branches :
          b.head_commit_id = NULL \/ b.head_commit_id \in CommitIds

C4_Witness ==
    /\ last.op = "create_commit" /\ last.ok /\ last.old_head # NULL
    /\ \E s \in Sessions : InFlight(s, "create_commit")

\* C5: two concurrent create_commit calls on one branch never both succeed
\* from the same old head: once every call has finished, each stored commit
\* is reachable from the head of the branch it was created on.
C5_NoLostHeadUpdate ==
    (\A s \in Sessions : tx[s].pc = "idle") =>
        \A c \in commits :
            /\ HasBranch(c.task_id, "main")
            /\ c.id \in ReachableFrom(HeadOf(c.task_id, "main"))

\* C6: after N create_commit calls on an initially empty branch and nothing
\* else, get_history(task, branch, N) is exactly those N commits, the most
\* recently created first, each once.
C6_LinearHistory ==
    \A t \in tasks :
        LET N == Cardinality(CommitsOfTask(t.id))
            h == get_history(t.id, "main", N)
        IN  N >= 1 =>
              /\ Len(h) = N
              /\ {h[i].id : i \in 1..Len(h)} = CommitsOfTask(t.id)
              /\ \A i, j \in 1..Len(h) :
                    i < j => h[i].created_at > h[j].created_at

C6_Witness ==
    /\ last.op = "create_commit" /\ last.ok
    /\ Cardinality(CommitsOfTask(last.task_id)) >= 3
    /\ Len(get_history(last.task_id, "main", 3)) = 3

\* C7: the list get_history returns holds each commit at most once.
C7_HistoryWithoutDuplicates ==
    \A b \in branches : \A limit \in Limits :
        LET h == get_history(b.task_id, b.name, limit)
        IN  \A i, j \in 1..Len(h) : i # j => h[i].id # h[j].id

\* C8: get_history(task, branch, limit) returns at most limit commits.
C8_HistoryAtMostLimit ==
    \A b \in branches : \A limit \in Limits :
        Len(get_history(b.task_id, b.name, limit)) <= limit

\* C9: the history of a branch with a head starts with the head, every
\* commit stands at the depth of its shortest path from the head, depths
\* never decrease along the list and equal depths are in descending
\* created_at order.
C9_HistoryByShortestDepth ==
    \A b \in branches : \A limit \in Limits :
        LET rows == history_rows(b.task_id, b.name, limit)
            head == b.head_commit_id
        IN  head # NULL =>
              /\ rows # <<>>
              /\ rows[1].id = head
              /\ \A i \in 1..Len(rows) :
                    rows[i].depth = ShortestDepth({head}, {}, 1, rows[i].id)
              /\ \A i, j \in 1..Len(rows) : i < j =>
                    /\ rows[i].depth <= rows[j].depth
                    /\ rows[i].depth = rows[j].depth =>
                          CommitRow(rows[i].id).created_at
                             >= CommitRow(rows[j].id).created_at

\* C10: after a successful merge_commit into a branch whose head was A with
\* source commit B, the parents of the merge commit are exactly {A, B}.
C10_MergeParents ==
    (last.op = "merge_commit" /\ last.ok) =>
        get_commit_parents(last.ret) = {last.old_head, last.arg}

C10_Witness ==
    /\ last.op = "merge_commit" /\ last.ok
    /\ last.old_head # last.arg
    /\ Cardinality(get_commit_parents(last.ret)) = 2


\* the branch a call named, as it was when the call started
IsTarget(b, call) == b.task_id = call.task_id /\ b.name = call.name

\* C11: a successful merge_commit advances only the target branch's head to
\* the new merge commit; every other branch, every commit and every parent
\* edge that existed before is left as it was.
C11_MergeFrame ==
    [][(last'.op = "merge_commit" /\ last'.ok) =>
          /\ \A b \in branches : IsTarget(b, last') \/ b \in branches'
          /\ \A b \in branches' :
                IF IsTarget(b, last') THEN b.head_commit_id = last'.ret
                ELSE b \in branches
          /\ commits \subseteq commits'
          /\ parents \subseteq parents'
          /\ \A c \in commits' \ commits : c.id = last'.ret
          /\ \A e \in parents' \ parents : e[1] = last'.ret]_vars

C11_Witness ==
    /\ last.op = "merge_commit" /\ last.ok
    /\ \E b \in branches :
          /\ ~IsTarget(b, last)
          /\ b.task_id = last.task_id
          /\ b.head_commit_id = last.arg

\* C12: merge_commit into an existing branch whose head is null fails and
\* changes no commit, no parent edge and no branch head.
C12_MergeIntoEmptyFails ==
    [][(/\ last'.op = "merge_commit"
        /\ HasBranch(last'.task_id, last'.name)
        /\ HeadOf(last'.task_id, last'.name) = NULL) =>
          /\ ~last'.ok
          /\ UNCHANGED <<commits, parents, branches>>]_vars

C12_Witness ==
    /\ last.op = "merge_commit" /\ ~last.ok /\ last.err = "no_commits"
    /\ HasBranch(last.task_id, last.name)
    /\ HeadOf(last.task_id, last.name) = NULL
    /\ last.arg \in CommitIds


\* C13 as stated: merge_commit with a source_commit_id that identifies no
\* commit always fails with the not-found error and writes nothing.
C13_MissingSourceAlwaysNotFound ==
    [][(last'.op = "merge_commit" /\ last'.arg \notin CommitIds) =>
          /\ ~last'.ok /\ last'.err = "not_found"
          /\ UNCHANGED <<commits, parents, branches>>]_vars

\* C13 amended: merge_commit with a source_commit_id that identifies no
\* commit fails and writes nothing; the error is not-found, except that a
\* target branch whose head is null is reported first ("has no commits").
C13_MissingSourceFails ==
    [][(last'.op = "merge_commit" /\ last'.arg \notin CommitIds) =>
          /\ ~last'.ok
          /\ last'.err =
                IF /\ HasBranch(last'.task_id, last'.name)
                   /\ HeadOf(last'.task_id, last'.name) = NULL
                THEN "no_commits" ELSE "not_found"
          /\ UNCHANGED <<commits, parents, branches>>]_vars

C13_Witness ==
    /\ last.op = "merge_commit" /\ ~last.ok /\ last.err = "not_found"
    /\ last.arg \notin CommitIds
    /\ HasBranch(last.task_id, last.name)
    /\ HeadOf(last.task_id, last.name) # NULL


\* C14: the full_context stored in a merge commit is the context text
\* supplied by the caller of merge.
C14_MergeContextFromCaller ==
    (last.op = "merge_commit" /\ last.ok) =>
        \A c \in get_commit(last.ret) : c.full_context \in Contexts


\* C15: create_commit with a task_id that does not exist, or a branch name
\* that does not exist within the task, fails with a not-found error and
\* inserts no commit, no parent edge and modifies no branch.
C15_CreateCommitNotFound ==
    [][(/\ last'.op = "create_commit"
        /\ \/ last'.task_id \notin TaskIds
           \/ ~HasBranch(last'.task_id, last'.name)) =>
          /\ ~last'.ok /\ last'.err = "not_found"
          /\ UNCHANGED <<commits, parents, branches>>]_vars

C15_Witness ==
    /\ last.op = "create_commit" /\ ~last.ok /\ last.err = "not_found"
    /\ last.task_id \in TaskIds
    /\ ~HasBranch(last.task_id, last.name)
    /\ commits # {}


\* C16: for every existing task, delete_branch(task_id, "main") fails with
\* the Forbidden error, never with a success or not-found result.
C16_DeleteMainForbidden ==
    (last.op = "delete_branch" /\ last.name = "main"
        /\ last.task_id \in TaskIds) =>
        (~last.ok /\ last.err = "forbidden")


\* C17: delete_branch of an existing branch not named "main" succeeds and
\* removes exactly that branch record; every commit, every parent edge and
\* every other branch is unchanged, the commits it pointed to included.
C17_DeleteBranchFrame ==
    [][(/\ last'.op = "delete_branch"
        /\ last'.name # "main"
        /\ HasBranch(last'.task_id, last'.name)) =>
          /\ last'.ok
          /\ branches' = branches \ get_branch(last'.task_id, last'.name)
          /\ Cardinality(branches') = Cardinality(branches) - 1
          /\ UNCHANGED <<commits, parents>>]_vars

C17_Witness ==
    /\ last.op = "delete_branch" /\ last.ok
    /\ last.old_head \in CommitIds
    /\ ~HasBranch(last.task_id, last.name)
    /\ \E b \in branches : b.task_id = last.task_id


\* C18: no task ever has two branches with the same name; create_branch with
\* a name already used in the task, and rename_branch of an existing branch
\* to a name already used in the task, fail with the duplicate-name error and
\* change nothing.
C18_UniqueBranchNames ==
    [][/\ \A b1, b2 \in branches' :
             (b1.task_id = b2.task_id /\ b1.name = b2.name) => b1 = b2
       /\ (last'.op = "create_branch"
              /\ HasBranch(last'.task_id, last'.name)) =>
             /\ ~last'.ok /\ last'.err = "duplicate"
             /\ UNCHANGED <<branches, commits, parents>>
       /\ (last'.op = "rename_branch"
              /\ HasBranch(last'.task_id, last'.name)
              /\ HasBranch(last'.task_id, last'.arg)) =>
             /\ ~last'.ok /\ last'.err = "duplicate"
             /\ UNCHANGED <<branches, commits, parents>>]_vars

C18_Witness ==
    /\ last.op = "rename_branch" /\ ~last.ok /\ last.err = "duplicate"
    /\ last.arg # last.name
    /\ HasBranch(last.task_id, last.name)
    /\ HasBranch(last.task_id, last.arg)
    /\ HeadOf(last.task_id, last.name) # HeadOf(last.task_id, last.arg)


\* C19: create_branch with from_commit_id = C, for an existing task, an
\* unused name and an existing commit C, succeeds and adds one branch whose
\* head is C; it creates no commit and no parent edge and leaves every
\* existing branch, its head included, unchanged.
C19_BranchFromCommit ==
    [][(last'.op = "create_branch" /\ last'.arg # NULL) =>
          /\ (/\ last'.task_id \in TaskIds
              /\ ~HasBranch(last'.task_id, last'.name)
              /\ last'.arg \in CommitIds) => last'.ok
          /\ last'.ok =>
                /\ branches' = branches \cup
                      {Branch(last'.task_id, last'.name, last'.arg)}
                /\ ~HasBranch(last'.task_id, last'.name)
                /\ UNCHANGED <<commits, parents>>]_vars

C19_Witness ==
    /\ last.op = "create_branch" /\ last.ok
    /\ last.arg \in CommitIds
    /\ HeadOf(last.task_id, last.name) = last.arg
    /\ \E b \in branches :
          /\ ~IsTarget(b, last)
          /\ b.task_id = last.task_id
          /\ b.head_commit_id = last.arg

\* C20: every non-null head_commit_id of every branch identifies an existing
\* commit, also after create_branch was called with an arbitrary
\* from_commit_id.
C20_HeadsReferenceCommits ==
    \A b \in branches :
        b.head_commit_id # NULL => b.head_commit_id \in CommitIds

C20_Witness ==
    /\ last.op = "create_branch" /\ ~last.ok /\ last.err = "integrity"
    /\ last.arg # NULL /\ last.arg \notin CommitIds
    /\ last.task_id \in TaskIds
    /\ ~HasBranch(last.task_id, last.name)
    /\ \E b \in branches : b.head_commit_id # NULL


C22_UniqueProjectNames ==
    [][/\ \A p1, p2 \in projects' : p1.name = p2.name => p1 = p2
       /\ (last'.op = "create_project"
              /\ \E p \in projects : p.name = last'.name) =>
             /\ ~last'.ok /\ last'.err = "duplicate"
             /\ UNCHANGED dbvars
       /\ (last'.op = "rename_project"
              /\ last'.arg \in ProjectIds
              /\ \E p \in projects :
                    p.name = last'.name /\ p.id # last'.arg) =>
             /\ ~last'.ok /\ last'.err = "duplicate"
             /\ UNCHANGED dbvars]_vars

C22_Witness ==
    /\ last.op = "rename_project" /\ ~last.ok /\ last.err = "duplicate"
    /\ last.arg \in ProjectIds
    /\ \E p \in projects : p.name = last.name /\ p.id # last.arg
    /\ nextProjectId > 3
    /\ Cardinality(projects) = 3

\* C23: the project parent relation contains no cycle: no project occurs in
\* its own parent chain, directly or transitively.
C23_ProjectTreeAcyclic ==
    \A p \in projects :
        p.parent_id # NULL =>
            p.id \notin ProjectAncestors({p.parent_id}, {})

C23_Witness ==
    /\ last.op = "rename_project" /\ last.ok
    /\ \E p, q \in projects :
          /\ p.parent_id = q.id
          /\ q.parent_id \in ProjectIds
          /\ p.id = last.arg


\* C24: get_project_hierarchy(id) terminates for every stored project
\* structure, a cyclic one included: no call nests until the interpreter
\* gives up.
C24_HierarchyTerminates == hier.status # "recursion_error"


\* C25: delete_project(id) returns true exactly when the project existed,
\* and after it succeeded no task owned by the project, no branch and no
\* commit of such a task remains; for a missing id it returns false and
\* changes nothing.  (Stated for projects that have no sub-project.)
C25_DeleteProjectCascades ==
    [][(last'.op = "delete_project") =>
          IF last'.arg \in ProjectIds
          THEN (\A p \in projects : p.parent_id # last'.arg) =>
                  /\ last'.ok
                  /\ last'.arg \notin ProjectIds'
                  /\ \A t \in OwnedTasks(last'.arg) :
                        /\ t \notin tasks'
                        /\ \A b \in branches' : b.task_id # t.id
                        /\ \A c \in commits' : c.task_id # t.id
          ELSE /\ ~last'.ok /\ last'.err = "not_found"
               /\ UNCHANGED dbvars]_vars


\* C26: commits are immutable: no operation changes a field of a commit
\* that exists, so a commit that is still stored after an operation has the
\* field values it had before.
C26_CommitsImmutable ==
    [][\A c \in commits : \A d \in commits' : d.id = c.id => d = c]_vars

C26_Witness ==
    /\ last.op = "merge_commit" /\ last.ok
    /\ \E c \in commits : c.id # last.ret /\ c.created_at < nextCommitId - 1
    /\ Cardinality(get_commit_parents(last.ret)) = 2


\* C27: the parent-edge relation is acyclic: no commit is its own ancestor.
C27_CommitGraphAcyclic ==
    \A c \in commits :
        c.id \notin Ancestors({e[2] : e \in {x \in parents : x[1] = c.id}}, {})

C27_Witness ==
    /\ last.op = "merge_commit" /\ last.ok
    /\ \E c \in get_commit_parents(last.ret) :
          last.old_head \in get_commit_parents(c)


\* C28: for every parent edge (child, parent), child and parent are commits
\* of the same task.
C28_EdgesWithinTask ==
    \A e \in parents :
        \A c, p \in commits :
            (c.id = e[1] /\ p.id = e[2]) => c.task_id = p.task_id


\* C29: get_history on an existing branch whose head is null returns the
\* empty list (and raises no error), whatever the task's other branches
\* hold.
C29_EmptyHistoryOfEmptyBranch ==
    \A b \in branches :
        b.head_commit_id = NULL =>
            \A limit \in Limits : get_history(b.task_id, b.name, limit) = <<>>

C29_Witness ==
    \E b \in branches :
        /\ b.head_commit_id = NULL
        /\ \E c \in commits : c.task_id = b.task_id
        /\ \E limit \in Limits : get_history(b.task_id, "main", limit) # <<>>


\* C30: no failed command leaves a partial write behind: whenever
\* handle_create_task raises an error, no task and no branch created by
\* that call remains persisted.
C30_FailedCreateTaskLeavesNothing ==
    [][(last'.op = "handle_create_task" /\ ~last'.ok) =>
          UNCHANGED <<tasks, branches, commits, parents>>]_vars

\* C31: handle_commit without an explicit branch commits on the recorded
\* current branch, on "main" only when none is recorded; without an explicit
\* task it uses the recorded current task.
C31_CommitOnCurrentBranch ==
    [][(last'.op = "handle_commit" /\ last'.ok) =>
          LET task_name == IF last'.arg # "" THEN last'.arg
                           ELSE state.current_task
              branch_name == IF last'.name # "" THEN last'.name
                             ELSE IF state.current_branch # ""
                                  THEN state.current_branch ELSE "main"
          IN  /\ \E t \in tasks : t.id = last'.task_id /\ t.name = task_name
              /\ \E b \in branches' :
                    /\ b.task_id = last'.task_id
                    /\ b.name = branch_name
                    /\ b.head_commit_id = last'.ret]_vars

\* C32: handle_switch saves the task exactly when a task is given and the
\* branch exactly when a branch is given, one write each; the selection not
\* given keeps its value, and nothing else changes.
C32_SwitchSetsGiven ==
    [][last'.op = "handle_switch" =>
          /\ state'.current_task = IF last'.arg # "" THEN last'.arg
                                   ELSE state.current_task
          /\ state'.current_branch = IF last'.name # "" THEN last'.name
                                     ELSE state.current_branch
          /\ last'.ret = Cardinality({x \in {<<1, last'.arg>>,
                                            <<2, last'.name>>} : x[2] # ""})
          /\ UNCHANGED dbvars]_vars

\* a branch was switched to with no task given: the current task is kept
C32_Witness ==
    /\ last.op = "handle_switch"
    /\ last.arg = ""
    /\ last.name = "feature"
    /\ state = [current_task |-> "T1", current_branch |-> "feature"]

\* C33: handle_create_task records the new name as current task only when
\* the task and its main branch are committed; a failed creation leaves the
\* current selection as it was.
C33_CurrentTaskAfterCreate ==
    [][last'.op = "handle_create_task" =>
          IF tasks' # tasks
          THEN /\ state' = [state EXCEPT !.current_task = last'.name]
               /\ \E t \in tasks' \ tasks :
                     /\ t.name = last'.name
                     /\ \E b \in branches' :
                           b.task_id = t.id /\ b.name = "main"
          ELSE state' = state]_vars

\* creating T1 a second time failed while T2 was the current task
C33_Witness ==
    /\ last.op = "handle_create_task"
    /\ ~last.ok
    /\ last.name = "T1"
    /\ state.current_task = "T2"
    /\ \E t \in tasks : t.name = "T1"

\* C34: with one caller at a time and no branch deleted, every commit of a
\* task is reachable by parent edges from the head of a branch of that task.
C34_CommitsReachableFromHeads ==
    \A c \in commits :
        \E b \in branches :
            /\ b.task_id = c.task_id
            /\ c.id \in ReachableFrom(b.head_commit_id)

\* after a merge a commit that is no branch's head is still reachable
C34_Witness ==
    /\ last.op = "merge_commit"
    /\ last.ok
    /\ Cardinality(commits) = 3
    /\ \E c \in commits : \A b \in branches : b.head_commit_id # c.id

\* C35: when create_commit or merge_commit moves a branch's head from a
\* non-null H to H', H is a direct parent of H', so the history the branch
\* had is kept.
C35_HeadMovesForward ==
    [][last'.op \in {"create_commit", "merge_commit"} =>
          \A b \in branches : \A x \in branches' :
              (/\ x.task_id = b.task_id
               /\ x.name = b.name
               /\ b.head_commit_id # NULL
               /\ x.head_commit_id # b.head_commit_id) =>
                  /\ CommitParent(x.head_commit_id, b.head_commit_id)
                        \in parents'
                  /\ parents \subseteq parents']_vars

\* C36: merge_commit succeeds whenever the target branch has a head and the
\* source commit exists, the source being the target's head included, and
\* inserts two distinct parent edges.
C36_MergeSucceeds ==
    [][(/\ last'.op = "merge_commit"
        /\ HasBranch(last'.task_id, last'.name)
        /\ HeadOf(last'.task_id, last'.name) # NULL
        /\ last'.arg \in CommitIds) =>
          /\ last'.ok
          /\ Cardinality(parents' \ parents) = 2]_vars

\* C37: after delete_task, or a project deletion that removes tasks, no
\* parent edge has a deleted commit as child or parent and no remaining
\* branch head points at a deleted commit.
C37_NoDanglingReferences ==
    /\ \A e \in parents : e[1] \in CommitIds /\ e[2] \in CommitIds
    /\ \A b \in branches :
          /\ b.task_id \in TaskIds
          /\ b.head_commit_id # NULL => b.head_commit_id \in CommitIds

\* a task was deleted with its commit; the other task's commit remains
C37_Witness ==
    /\ last.op = "delete_task"
    /\ last.ok
    /\ nextCommitId = 3
    /\ \E c \in commits : c.task_id # last.task_id /\ commits = {c}
    /\ \E b \in branches : b.name = "feature" /\ b.head_commit_id = NULL

\* the direct parents recorded for a commit in a table of edges
ParentEdges(edges, commit_id) == {e \in edges : e[1] = commit_id}

\* C38: the parent set of a commit is fixed at creation: no step adds or
\* removes an edge whose child already exists, and a commit has no or one
\* parent when create_commit made it and two when merge_commit made it.
C38_ParentsFixedAtCreation ==
    [][/\ \A c \in commits :
             ParentEdges(parents', c.id) = ParentEdges(parents, c.id)
       /\ \A c \in commits' \ commits :
             Cardinality(ParentEdges(parents', c.id)) =
                IF last'.op = "merge_commit" THEN 2
                ELSE IF last'.old_head # NULL THEN 1 ELSE 0]_vars

\* a merge commit with two parents over a commit with one and one with none
C38_Witness ==
    /\ last.op = "merge_commit"
    /\ last.ok
    /\ Cardinality(ParentEdges(parents, last.ret)) = 2
    /\ \E c \in commits : Cardinality(ParentEdges(parents, c.id)) = 1
    /\ \E c \in commits : ParentEdges(parents, c.id) = {}

\* C39: get_history for a branch name the task does not have returns the
\* empty list, as it does for a branch with no commits, and
\* get_commit_parents of an unknown commit id returns the empty list.
C39_MissingBranchEmptyHistory ==
    /\ \A task_id \in 1..nextTaskId : \A name \in BranchNames :
          ~HasBranch(task_id, name) =>
              \A limit \in Limits : get_history(task_id, name, limit) = <<>>
    /\ \A commit_id \in 1..nextCommitId :
          commit_id \notin CommitIds => get_commit_parents(commit_id) = {}

\* a branch that had commits was deleted; main still has a history
C39_Witness ==
    /\ last.op = "delete_branch"
    /\ last.ok
    /\ last.old_head \in CommitIds
    /\ ~HasBranch(last.task_id, last.name)
    /\ HasBranch(last.task_id, "main")
    /\ get_history(last.task_id, "main", 1) # <<>>

====
